---- MODULE Spec2Model ----
(***************************************************************************)
(* Runtime patch of std::fmt::DebugTuple::field (src/src/lib.rs).          *)
(*                                                                         *)
(* enable(on) resolves the patch site `function + 0x46`, checks that the   *)
(* bytes there are ORIGINAL or PATCHED, asks the platform for              *)
(* read/write/execute permission on the pages of the site, writes the      *)
(* requested encoding and lets the protection handle go out of scope.      *)
(* The model follows the body of enable statement by statement; the        *)
(* formatting routine whose branch is patched is modelled by what the      *)
(* crate's test observes of it.                                            *)
(***************************************************************************)
EXTENDS Integers, Sequences, FiniteSets, TLC

\* ------------------------------------------------------------- bounds
\* Threads of the host process that may call enable.
NumThreads == 2
\* Calls of enable started in one run of the process.
MaxCalls == 3
\* Bytes of the function body tracked on each side of the patch site.
Pad == 2

\* ------------------------------------------------ architecture tables
Archs == {"x86_64", "aarch64"}

\* jne 0x40 on x86_64; the four bytes 0, 208, 8, 5 on aarch64.
ORIGINAL(a) == IF a = "x86_64" THEN <<117, 62>> ELSE <<0, 208, 8, 5>>

\* 66 90 (nop) on x86_64; 1F 20 03 D5 (NOP) on aarch64.
PATCHED(a) == IF a = "x86_64" THEN <<102, 144>> ELSE <<31, 32, 3, 213>>

\* function.offset(0x46)
Offset == 70

\* std::mem::size_of_val(&ORIGINAL)
size(a) == Len(ORIGINAL(a))

\* Granularity of a protection change (region rounds the range to pages).
PageSize == 4096

\* Instruction alignment of a function's entry: 4 on aarch64, none on x86_64.
FunctionAlign(a) == IF a = "aarch64" THEN 4 ELSE 1

\* Entry addresses of DebugTuple::field the model places the function at:
\* the site inside one page, ending at a page boundary, and across one.
Entries(a) == {f \in {4016, 4024, 4025, 4096} : f % FunctionAlign(a) = 0}

\* let ptr = function.offset(0x46)
ptr(f) == f + Offset

\* The addresses of the function body the model tracks.
Window(f, a) == (ptr(f) - Pad)..(ptr(f) + size(a) + Pad - 1)

\* *ptr : the n bytes at p.
ReadBytes(m, p, n) == [i \in 1..n |-> m[p + i - 1]]

\* Mutant of StoreBytes: the last byte of bs is not stored.
StoreBytes_short(m, p, bs) ==
  [x \in DOMAIN m |-> IF x \in p..(p + Len(bs) - 2) THEN bs[x - p + 1] ELSE m[x]]

\* Mutant of StoreBytes: bs is stored one byte too far.
StoreBytes_shifted(m, p, bs) ==
  [x \in DOMAIN m |-> IF x \in (p + 1)..(p + Len(bs)) THEN bs[x - p] ELSE m[x]]

\* Mutant of StoreBytes: one byte more than bs is overwritten.
StoreBytes_wide(m, p, bs) ==
  [x \in DOMAIN m |-> IF x \in p..(p + Len(bs) - 1) THEN bs[x - p + 1]
                      ELSE IF x = p + Len(bs) THEN 0 ELSE m[x]]

\* ptr.write(bs) : the bytes of bs stored at p, every other byte kept.
StoreBytes(m, p, bs) ==
  [x \in DOMAIN m |-> IF x \in p..(p + Len(bs) - 1) THEN bs[x - p + 1] ELSE m[x]]

\* Pages holding a byte of [p, p + n).
PagesOf(p, n) == {x \div PageSize : x \in p..(p + n - 1)}

\* region::Protection values.
READ_EXECUTE == {"R", "X"}
READ_WRITE_EXECUTE == {"R", "W", "X"}

\* Protections a code page may have when enable is first called.
InitProtections == {READ_EXECUTE, READ_WRITE_EXECUTE}

\* Mutant of Recognized: only the first byte is compared.
Recognized_first(bs, a) == bs[1] = ORIGINAL(a)[1] \/ bs[1] = PATCHED(a)[1]

\* matches!(*ptr, ORIGINAL | PATCHED)
Recognized(bs, a) == bs = ORIGINAL(a) \/ bs = PATCHED(a)

\* Contents of the site when the compiled function is not the expected one:
\* a mix of the two encodings, and unrelated bytes.
Drifted(a) ==
  { [i \in 1..size(a) |-> IF i = 1 THEN PATCHED(a)[i] ELSE ORIGINAL(a)[i]],
    [i \in 1..size(a) |-> 204] }

\* Byte of the function body outside the site (not read by enable).
BodyByte == 204

Threads == 1..NumThreads

\* No protection handle held.
NoHandle == [p \in {} |-> {}]

VARIABLES
  arch,        \* target architecture the crate was built for
  function,    \* entry address of DebugTuple::field
  mem,         \* bytes of the function body around the site
  prot,        \* protection of each page of the function body
  pc,          \* position of each thread in enable
  on,          \* argument of each thread's call
  prot_handle, \* `_prot`: the protections the handle restores when dropped
  start,       \* history: site bytes, protections and calls begun so far, when the call began
  events,      \* history: memory operations of the call in progress
  log,         \* history: the calls that ended, in the order they ended
  written,     \* positions of the store in progress already in memory, per thread
  fetched      \* bytes of the site last fetched by a thread running the function

vars == <<arch, function, mem, prot, pc, on, prot_handle, start, events, log,
          written, fetched>>

\* The bytes at the patch site.
Site == ReadBytes(mem, ptr(function), size(arch))

\* Mutant of SitePages: the range is widened to the bytes around the site.
SitePages_window == PagesOf(ptr(function) - Pad, size(arch) + 2 * Pad)

\* Pages the protection change covers.
SitePages == PagesOf(ptr(function), size(arch))

\* ------------------------------------------------ the patched routine
\* <u32 as Debug>::fmt: the decimal digits of n.
Digit(d) == <<"0", "1", "2", "3", "4", "5", "6", "7", "8", "9">>[d + 1]

RECURSIVE FmtU32(_)
FmtU32(n) == IF n < 10 THEN Digit(n) ELSE FmtU32(n \div 10) \o Digit(n % 10)

\* Mutant of is_pretty: the bytes at the site do not decide the branch.
is_pretty_unpatched(site, a, alternate) == alternate

\* The branch at the site: `jne` sends a formatter with the `#` flag to the
\* multi-line arm of DebugTuple::field; with the nop there the arm is never
\* entered.  Any other content is the function as it was compiled.
is_pretty(site, a, alternate) == IF site = PATCHED(a) THEN FALSE ELSE alternate

\* DebugTuple::field for the k-th field of a tuple struct.
TupleField(k, value, pretty) ==
  IF pretty
    THEN (IF k = 1 THEN "(\n" ELSE "") \o "    " \o FmtU32(value) \o ",\n"
    ELSE (IF k = 1 THEN "(" ELSE ", ") \o FmtU32(value)

RECURSIVE TupleFields(_, _, _)
TupleFields(fields, k, pretty) ==
  IF k > Len(fields) THEN ""
  ELSE TupleField(k, fields[k], pretty) \o TupleFields(fields, k + 1, pretty)

\* format!("{a:?}") / format!("{a:#?}") of a tuple struct, with `site` the
\* bytes at the patch site of DebugTuple::field.
FormatTuple(name, fields, alternate, site, a) ==
  name \o TupleFields(fields, 1, is_pretty(site, a, alternate))
       \o (IF Len(fields) > 0 THEN ")" ELSE "")

\* DebugStruct::field for the k-th named field; this routine is not patched.
StructField(k, field, alternate) ==
  IF alternate
    THEN (IF k = 1 THEN " {\n" ELSE "") \o "    " \o field[1] \o ": "
           \o FmtU32(field[2]) \o ",\n"
    ELSE (IF k = 1 THEN " { " ELSE ", ") \o field[1] \o ": " \o FmtU32(field[2])

RECURSIVE StructFields(_, _, _)
StructFields(fields, k, alternate) ==
  IF k > Len(fields) THEN ""
  ELSE StructField(k, fields[k], alternate) \o StructFields(fields, k + 1, alternate)

\* format!("{b:?}") / format!("{b:#?}") of a struct with named fields.
FormatStruct(name, fields, alternate) ==
  name \o StructFields(fields, 1, alternate)
       \o (IF Len(fields) > 0 THEN (IF alternate THEN "}" ELSE " }") ELSE "")

\* let a = A(8, 32); let b = B { x: 8, y: 32 };
A_fields == <<8, 32>>
B_fields == <<<<"x", 8>>, <<"y", 32>>>>

\* The bytes around the site are the code the compiler produced.
CodeIntact == \A x \in DOMAIN mem :
  x \in ptr(function)..(ptr(function) + size(arch) - 1) \/ mem[x] = BodyByte

\* Outcome of running code whose bytes are not the ones modelled.
UNDEFINED == "(undefined)"

\* format!("{a:?}") and format!("{a:#?}") in the current state of the process:
\* DebugTuple::field runs the instruction at the site.
FormatA(alternate) ==
  IF CodeIntact /\ (Site = ORIGINAL(arch) \/ Site = PATCHED(arch))
    THEN FormatTuple("A", A_fields, alternate, Site, arch)
    ELSE UNDEFINED

\* format!("{b:?}") and format!("{b:#?}") in the current state of the process:
\* DebugStruct::field runs code outside the site only.
FormatB(alternate) ==
  IF CodeIntact THEN FormatStruct("B", B_fields, alternate) ELSE UNDEFINED

\* Mutant of Target: the two encodings exchanged.
Target_swapped(b, a) == IF b THEN ORIGINAL(a) ELSE PATCHED(a)

\* Mutant of Target: the encoding at the site is flipped, whatever the argument.
Target_flip(b, a) == IF Site = PATCHED(a) THEN ORIGINAL(a) ELSE PATCHED(a)

\* if on { PATCHED } else { ORIGINAL }
Target(b, a) == IF b THEN PATCHED(a) ELSE ORIGINAL(a)

\* What the protection handle records: the protection of each page of the range.
Saved(pr, pages) == [p \in pages |-> pr[p]]

\* Mutant of Elevate: every page of the function is made read/write/execute.
Elevate_all(pr, pages) == [p \in DOMAIN pr |-> READ_WRITE_EXECUTE]

\* The pages of the range made read/write/execute.
Elevate(pr, pages) ==
  [p \in DOMAIN pr |-> IF p \in pages THEN READ_WRITE_EXECUTE ELSE pr[p]]

\* Mutant of Restore: the handle is forgotten, nothing is restored.
Restore_none(pr, h) == pr

\* Drop of the handle: every recorded page gets its recorded protection back.
Restore(pr, h) == [p \in DOMAIN pr |-> IF p \in DOMAIN h THEN h[p] ELSE pr[p]]

Active(t) == pc[t] \in {"verify", "protect", "write", "drop"}

Started == Len(log) + Cardinality({t \in Threads : Active(t)})

\* Record of a call that ended.
Ended(t, result, m, pr, ev) ==
  [on |-> on[t], seq |-> start[t].seq,
   site0 |-> start[t].site, prot0 |-> start[t].prot,
   site1 |-> ReadBytes(m, ptr(function), size(arch)), prot1 |-> pr,
   result |-> result, events |-> ev]

Init ==
  /\ arch \in Archs
  /\ function \in Entries(arch)
  /\ \E bs \in {ORIGINAL(arch), PATCHED(arch)} \cup Drifted(arch) :
       mem = [x \in Window(function, arch) |->
                IF x \in ptr(function)..(ptr(function) + size(arch) - 1)
                  THEN bs[x - ptr(function) + 1] ELSE BodyByte]
  /\ prot \in [PagesOf(ptr(function) - Pad, size(arch) + 2 * Pad) -> InitProtections]
  /\ pc = [t \in Threads |-> "idle"]
  /\ on = [t \in Threads |-> FALSE]
  /\ prot_handle = [t \in Threads |-> NoHandle]
  /\ start = [t \in Threads |-> [site |-> <<>>, prot |-> NoHandle, seq |-> 0]]
  /\ events = [t \in Threads |-> <<>>]
  /\ log = <<>>
  /\ written = [t \in Threads |-> {}]
  /\ fetched = <<>>

\* Mutant of Call: the check of the site is skipped.
Call_unverified(t, b) ==
  /\ pc[t] = "idle"
  /\ \A u \in Threads : pc[u] # "panicked"
  /\ Started < MaxCalls
  /\ pc' = [pc EXCEPT ![t] = "protect"]
  /\ on' = [on EXCEPT ![t] = b]
  /\ start' = [start EXCEPT ![t] = [site |-> Site, prot |-> prot, seq |-> Started]]
  /\ events' = [events EXCEPT ![t] = <<>>]
  /\ UNCHANGED <<arch, function, mem, prot, prot_handle, log, written, fetched>>

\* pub unsafe fn enable(on: bool): entry; `function` and `ptr` are computed
\* and the next statement is the check of the site.
Call(t, b) ==
  /\ pc[t] = "idle"
  /\ \A u \in Threads : pc[u] # "panicked"
  /\ Started < MaxCalls
  /\ pc' = [pc EXCEPT ![t] = "verify"]
  /\ on' = [on EXCEPT ![t] = b]
  /\ start' = [start EXCEPT ![t] = [site |-> Site, prot |-> prot, seq |-> Started]]
  /\ events' = [events EXCEPT ![t] = <<>>]
  /\ UNCHANGED <<arch, function, mem, prot, prot_handle, log, written, fetched>>

\* The caller's precondition: toggle calls are serialized.
SerialCall(t, b) ==
  /\ \A u \in Threads : ~Active(u)
  /\ Call(t, b)

\* Mutant of Verify: once a call has succeeded the site is trusted and the
\* check is skipped.
Verify_trusting(t) ==
  /\ pc[t] = "verify"
  /\ IF Len(log) > 0 \/ Recognized(Site, arch)
       THEN /\ events' = [events EXCEPT ![t] = Append(@, "read_ok")]
            /\ pc' = [pc EXCEPT ![t] = "protect"]
            /\ log' = log
       ELSE /\ events' = [events EXCEPT ![t] = Append(@, "read_bad")]
            /\ pc' = [pc EXCEPT ![t] = "panicked"]
            /\ log' = Append(log, Ended(t, "panic_verify", mem, prot,
                                        Append(events[t], "read_bad")))
  /\ UNCHANGED <<arch, function, mem, prot, on, prot_handle, start, written, fetched>>

\* Mutant of Verify: a call that finds the requested encoding already at the
\* site returns at once.
Verify_early(t) ==
  /\ pc[t] = "verify"
  /\ IF Site = Target(on[t], arch)
       THEN /\ events' = [events EXCEPT ![t] = Append(@, "read_ok")]
            /\ pc' = [pc EXCEPT ![t] = "idle"]
            /\ log' = Append(log, Ended(t, "returned", mem, prot,
                                        Append(events[t], "read_ok")))
       ELSE IF Recognized(Site, arch)
       THEN /\ events' = [events EXCEPT ![t] = Append(@, "read_ok")]
            /\ pc' = [pc EXCEPT ![t] = "protect"]
            /\ log' = log
       ELSE /\ events' = [events EXCEPT ![t] = Append(@, "read_bad")]
            /\ pc' = [pc EXCEPT ![t] = "panicked"]
            /\ log' = Append(log, Ended(t, "panic_verify", mem, prot,
                                        Append(events[t], "read_bad")))
  /\ UNCHANGED <<arch, function, mem, prot, on, prot_handle, start, written, fetched>>

\* if !matches!(*ptr, ORIGINAL | PATCHED) { panic!(..) }
Verify(t) ==
  /\ pc[t] = "verify"
  /\ IF Recognized(Site, arch)
       THEN /\ events' = [events EXCEPT ![t] = Append(@, "read_ok")]
            /\ pc' = [pc EXCEPT ![t] = "protect"]
            /\ log' = log
       ELSE /\ events' = [events EXCEPT ![t] = Append(@, "read_bad")]
            /\ pc' = [pc EXCEPT ![t] = "panicked"]
            /\ log' = Append(log, Ended(t, "panic_verify", mem, prot,
                                        Append(events[t], "read_bad")))
  /\ UNCHANGED <<arch, function, mem, prot, on, prot_handle, start, written, fetched>>

\* Mutant of Granted: the handle is bound to `_`, so it is dropped at once and
\* the pages are back to their protection before the store.
Granted_dropped(t) ==
  /\ events' = [events EXCEPT ![t] = Append(@, "protect_granted")]
  /\ UNCHANGED <<prot, prot_handle>>
  /\ pc' = [pc EXCEPT ![t] = "write"]
  /\ log' = log

\* region::protect_with_handle(..) returned Ok: the handle records the
\* protection of every page of the range and the pages are read/write/execute.
Granted(t) ==
  /\ events' = [events EXCEPT ![t] = Append(@, "protect_granted")]
  /\ prot_handle' = [prot_handle EXCEPT ![t] = Saved(prot, SitePages)]
  /\ prot' = Elevate(prot, SitePages)
  /\ pc' = [pc EXCEPT ![t] = "write"]
  /\ log' = log

\* Mutant of Refused: a refused request is made again.
Refused_retry(t) ==
  /\ events' = [events EXCEPT ![t] = Append(@, "protect_denied")]
  /\ UNCHANGED <<pc, log, prot, prot_handle>>

\* Mutant of Refused: the error is dropped and the call goes on to the write.
Refused_ignored(t) ==
  /\ events' = [events EXCEPT ![t] = Append(@, "protect_denied")]
  /\ pc' = [pc EXCEPT ![t] = "write"]
  /\ log' = log
  /\ UNCHANGED <<prot, prot_handle>>

\* region::protect_with_handle(..) returned Err: nothing was changed, and
\* unwrap() panics.
Refused(t) ==
  /\ events' = [events EXCEPT ![t] = Append(@, "protect_denied")]
  /\ pc' = [pc EXCEPT ![t] = "panicked"]
  /\ log' = Append(log, Ended(t, "panic_protect", mem, prot,
                              Append(events[t], "protect_denied")))
  /\ UNCHANGED <<prot, prot_handle>>

\* let _prot = region::protect_with_handle(ptr, size, READ_WRITE_EXECUTE).unwrap();
\* the platform grants the change or refuses it.
Protect(t) ==
  /\ pc[t] = "protect"
  /\ \E granted \in BOOLEAN : IF granted THEN Granted(t) ELSE Refused(t)
  /\ UNCHANGED <<arch, function, mem, on, start, written, fetched>>

\* ptr.write(if on { PATCHED } else { ORIGINAL }); a store to a page without
\* write permission faults and ends the process.
Write(t) ==
  /\ pc[t] = "write"
  /\ IF \A p \in SitePages : "W" \in prot[p]
       THEN /\ events' = [events EXCEPT ![t] = Append(@, "write")]
            /\ mem' = StoreBytes(mem, ptr(function), Target(on[t], arch))
            /\ pc' = [pc EXCEPT ![t] = "drop"]
            /\ log' = log
       ELSE /\ events' = [events EXCEPT ![t] = Append(@, "fault")]
            /\ mem' = mem
            /\ pc' = [pc EXCEPT ![t] = "panicked"]
            /\ log' = Append(log, Ended(t, "fault", mem, prot,
                                        Append(events[t], "fault")))
  /\ UNCHANGED <<arch, function, prot, on, prot_handle, start, written, fetched>>

\* End of the block: `_prot` is dropped, which restores the recorded
\* protections, and enable returns.
Drop(t) ==
  /\ pc[t] = "drop"
  /\ events' = [events EXCEPT ![t] = Append(@, "restore")]
  /\ prot' = Restore(prot, prot_handle[t])
  /\ log' = Append(log, Ended(t, "returned", mem, Restore(prot, prot_handle[t]),
                              Append(events[t], "restore")))
  /\ prot_handle' = [prot_handle EXCEPT ![t] = NoHandle]
  /\ pc' = [pc EXCEPT ![t] = "idle"]
  /\ UNCHANGED <<arch, function, mem, on, start, written, fetched>>

Next ==
  \E t \in Threads :
    \/ \E b \in BOOLEAN : SerialCall(t, b)
    \/ Verify(t)
    \/ Protect(t)
    \/ Write(t)
    \/ Drop(t)

Spec == Init /\ [][Next]_vars

\* Mutant of StoreSome: the bytes are stored one position too far.
StoreSome_shifted(m, p, bs, S) ==
  [x \in DOMAIN m |-> IF (x - p) \in S THEN bs[x - p] ELSE m[x]]

\* The bytes of bs at the positions S stored at p, every other byte kept.
StoreSome(m, p, bs, S) ==
  [x \in DOMAIN m |-> IF (x - p + 1) \in S THEN bs[x - p + 1] ELSE m[x]]

\* ptr.write(..) while other threads run: the store is not atomic for them,
\* so its bytes reach memory in one or several steps, in any order; a step on
\* a page without write permission faults.
StorePart(t) ==
  /\ pc[t] = "write"
  /\ IF \A p \in SitePages : "W" \in prot[p]
       THEN \E S \in (SUBSET ((1..size(arch)) \ written[t])) \ {{}} :
              /\ mem' = StoreSome(mem, ptr(function), Target(on[t], arch), S)
              /\ IF written[t] \cup S = 1..size(arch)
                   THEN /\ written' = [written EXCEPT ![t] = {}]
                        /\ events' = [events EXCEPT ![t] = Append(@, "write")]
                        /\ pc' = [pc EXCEPT ![t] = "drop"]
                   ELSE /\ written' = [written EXCEPT ![t] = @ \cup S]
                        /\ UNCHANGED <<events, pc>>
              /\ log' = log
       ELSE /\ events' = [events EXCEPT ![t] = Append(@, "fault")]
            /\ mem' = mem
            /\ written' = [written EXCEPT ![t] = {}]
            /\ pc' = [pc EXCEPT ![t] = "panicked"]
            /\ log' = Append(log, Ended(t, "fault", mem, prot,
                                        Append(events[t], "fault")))
  /\ UNCHANGED <<arch, function, prot, on, prot_handle, start, fetched>>

\* A thread running DebugTuple::field fetches the instruction bytes at the
\* site; nothing orders the fetch with a call of enable in another thread.
Fetch ==
  /\ fetched # Site
  /\ fetched' = Site
  /\ UNCHANGED <<arch, function, mem, prot, pc, on, prot_handle, start, events,
                 log, written>>

\* A fault at the store ends the process.
Faulted == \E i \in 1..Len(log) : log[i].result = "fault"

\* Each thread calls enable once, at any time.
ConcCall(t, b) ==
  /\ events[t] = <<>>
  /\ Call(t, b)

NextConc ==
  \/ \E t \in Threads :
       \/ \E b \in BOOLEAN : ~Faulted /\ ConcCall(t, b)
       \/ ~Faulted /\ Verify(t)
       \/ ~Faulted /\ Protect(t)
       \/ ~Faulted /\ StorePart(t)
       \/ ~Faulted /\ Drop(t)

\* The process at its first call of enable from several threads: the function
\* as the crate expects it, its site ending at a page boundary (x86_64) or
\* lying across it (aarch64).
InitConc ==
  /\ Init
  /\ function = 4024
  /\ Recognized(Site, arch)

\* Calls of enable from several threads with no serialization.
SpecConc == InitConc /\ [][NextConc]_vars

\* The process at its first call of enable, the function as the crate expects it.
InitRace ==
  /\ Init
  /\ Recognized(Site, arch)

NextRace ==
  \/ \E t \in Threads :
       \/ \E b \in BOOLEAN : SerialCall(t, b)
       \/ Verify(t)
       \/ Protect(t)
       \/ StorePart(t)
       \/ Drop(t)
  \/ Fetch

\* Serialized calls of enable beside threads that run the patched function.
SpecRace == InitRace /\ [][NextRace]_vars

\* Something other than enable replaces the bytes of the site, between calls,
\* by bytes that are neither encoding (the function "does not look like
\* expected" any more).
Tamper ==
  /\ \A t \in Threads : pc[t] = "idle"
  /\ Site \notin Drifted(arch)
  /\ \E bs \in Drifted(arch) :
       mem' = [x \in DOMAIN mem |->
                 IF x \in ptr(function)..(ptr(function) + size(arch) - 1)
                   THEN bs[x - ptr(function) + 1] ELSE mem[x]]
  /\ UNCHANGED <<arch, function, prot, pc, on, prot_handle, start, events, log,
                 written, fetched>>

NextTamper == Next \/ Tamper

\* Serialized calls of enable in a process where the site may be changed from
\* outside between calls.
SpecTamper == Init /\ [][NextTamper]_vars

\* Serialized calls in which a thread inside enable keeps running: the body
\* is straight-line code with no wait, so each of its steps is taken once it
\* can be.
FairSpec ==
  /\ Spec
  /\ \A t \in Threads : /\ WF_vars(Verify(t))
                        /\ WF_vars(Protect(t))
                        /\ WF_vars(Write(t))
                        /\ WF_vars(Drop(t))

\* ------------------------------------------------------------ claims
\* No call of enable is in progress.
Quiet == \A t \in Threads : ~Active(t)

\* The calls that ended and those in progress, as (argument, site at entry,
\* events so far).
CallsSeen ==
  {[on |-> log[i].on, site0 |-> log[i].site0, events |-> log[i].events] :
      i \in 1..Len(log)}
  \cup {[on |-> on[t], site0 |-> start[t].site, events |-> events[t]] :
      t \in {u \in Threads : Active(u)}}

\* C1: a call that starts with ORIGINAL or PATCHED at the site and whose
\* permission change is granted returns with PATCHED at the site when its
\* argument is true and ORIGINAL when it is false, whatever was there before.
C1_SetsRequestedEncoding ==
  \A i \in 1..Len(log) :
    ((log[i].site0 = ORIGINAL(arch) \/ log[i].site0 = PATCHED(arch))
       /\ log[i].result # "panic_protect")
      => /\ log[i].result = "returned"
         /\ log[i].site1 = IF log[i].on THEN PATCHED(arch) ELSE ORIGINAL(arch)

\* C1 witness: both encodings were replaced by the other one, and each was
\* rewritten over itself.
C1_Witness ==
  /\ \E i \in 1..Len(log) : /\ log[i].site0 = ORIGINAL(arch) /\ log[i].on
                            /\ log[i].site1 = PATCHED(arch)
  /\ \E i \in 1..Len(log) : /\ log[i].site0 = PATCHED(arch) /\ ~log[i].on
                            /\ log[i].site1 = ORIGINAL(arch)
  /\ \E i \in 1..Len(log) : /\ log[i].site0 = PATCHED(arch) /\ log[i].on
                            /\ log[i].site1 = PATCHED(arch)

\* C2: idempotence: when two calls in succession have the same argument and
\* both return, the site after the second holds exactly the bytes it held
\* after the first.
C2_Idempotent ==
  \A i \in 1..(Len(log) - 1) :
    (/\ log[i].result = "returned" /\ log[i + 1].result = "returned"
     /\ log[i + 1].on = log[i].on
     /\ log[i + 1].site0 = log[i].site1)
      => log[i + 1].site1 = log[i].site1

\* C2 witness: enable(true) twice and enable(false) twice, each pair in
\* succession, the first call of a pair changing the site.
C2_Witness ==
  \E i \in 1..(Len(log) - 1) :
    /\ log[i].result = "returned" /\ log[i + 1].result = "returned"
    /\ log[i + 1].on = log[i].on
    /\ log[i].site0 # log[i].site1
    /\ log[i + 1].site0 = log[i].site1
    /\ log[i + 1].site1 = log[i].site1

\* C3: round trip: after any sequence of serialized calls from a recognized
\* site whose last call is enable(false) and returns, the site holds ORIGINAL.
C3_RoundTrip ==
  (/\ Quiet /\ Len(log) > 0
   /\ (log[1].site0 = ORIGINAL(arch) \/ log[1].site0 = PATCHED(arch))
   /\ ~log[Len(log)].on /\ log[Len(log)].result = "returned")
    => Site = ORIGINAL(arch)

\* C3 witness: a sequence of MaxCalls calls that mixes both arguments, ends
\* with enable(false) and leaves ORIGINAL.
C3_Witness ==
  /\ Quiet /\ Len(log) >= 3
  /\ \E i \in 1..(Len(log) - 1) : log[i].on
  /\ \E i \in 1..(Len(log) - 1) : ~log[i].on
  /\ log[Len(log) - 1].on
  /\ ~log[Len(log)].on /\ log[Len(log)].result = "returned"
  /\ Site = ORIGINAL(arch)

\* C4: site invariant: no step of a toggle takes the site from ORIGINAL or
\* PATCHED to any other content, so from a recognized site every reachable
\* state has ORIGINAL or PATCHED at the site.
C4_SiteStaysRecognized ==
  [][(Site = ORIGINAL(arch) \/ Site = PATCHED(arch))
       => (Site' = ORIGINAL(arch') \/ Site' = PATCHED(arch'))]_vars

\* C4 witness: the site was taken from each encoding to the other and holds
\* one of them.
C4_Witness ==
  /\ Len(log) >= 2
  /\ \E i \in 1..Len(log) : log[i].site0 # log[i].site1
  /\ \E i \in 1..(Len(log) - 1) : log[i].site1 # log[i + 1].site1
  /\ (Site = ORIGINAL(arch) \/ Site = PATCHED(arch))

\* The events of kind k in a call's events.
Count(ev, k) == Cardinality({j \in 1..Len(ev) : ev[j] = k})

\* C5: a call that finds bytes other than ORIGINAL and PATCHED at the site
\* panics at the check, whatever its argument: it does not return, it requests
\* no permission change, it stores nothing and the site keeps its bytes.
C5_MismatchPanics ==
  /\ \A i \in 1..Len(log) :
       ~(log[i].site0 = ORIGINAL(arch) \/ log[i].site0 = PATCHED(arch))
         => /\ log[i].result = "panic_verify"
            /\ log[i].events = <<"read_bad">>
            /\ log[i].site1 = log[i].site0
            /\ i = Len(log)
            /\ \E t \in Threads : pc[t] = "panicked"
  /\ \A t \in Threads :
       (Active(t) /\ ~(start[t].site = ORIGINAL(arch) \/ start[t].site = PATCHED(arch)))
         => /\ pc[t] = "verify"
            /\ events[t] = <<>>
            /\ Site = start[t].site
  /\ (\E i \in 1..Len(log) : log[i].result = "panic_verify")
       => /\ Site = log[Len(log)].site0
          /\ CodeIntact

\* C5 witness: enable(true) panicked on a site that holds neither encoding,
\* and the site is as it was.
C5_Witness ==
  /\ Len(log) = 1
  /\ log[1].on
  /\ log[1].result = "panic_verify"
  /\ log[1].site0 \in Drifted(arch)
  /\ Site = log[1].site0
  /\ \E t \in Threads : pc[t] = "panicked"

\* C6: a call whose permission change is refused panics there: it does not
\* return, it asked once, it stores nothing, the site and the page
\* protections are as they were when the call began, and no call follows.
C6_DenialPanics ==
  /\ \A i \in 1..Len(log) :
       Count(log[i].events, "protect_denied") > 0
         => /\ log[i].result = "panic_protect"
            /\ log[i].events = <<"read_ok", "protect_denied">>
            /\ log[i].site1 = log[i].site0
            /\ log[i].prot1 = log[i].prot0
            /\ i = Len(log)
            /\ Site = log[i].site0
            /\ CodeIntact
            /\ \E t \in Threads : pc[t] = "panicked"
  /\ \A t \in Threads : Active(t) => Count(events[t], "protect_denied") = 0

\* C6 witness: after a call that returned, a call was refused the permission
\* change and panicked with the site as the first call left it.
C6_Witness ==
  /\ Len(log) >= 2
  /\ log[Len(log)].result = "panic_protect"
  /\ log[Len(log) - 1].result = "returned"
  /\ log[Len(log) - 1].site0 # log[Len(log) - 1].site1
  /\ Site = log[Len(log) - 1].site1

\* C7: when a call has ended, by return or by either panic, every page has
\* the protection it had when the call began, and no protection handle is
\* left; between calls the pages have the protections of the start.
C7_ProtectionsRestored ==
  /\ \A i \in 1..Len(log) :
       log[i].result \in {"returned", "panic_verify", "panic_protect"}
         => log[i].prot1 = log[i].prot0
  /\ \A t \in Threads : ~Active(t) => prot_handle[t] = NoHandle
  /\ (Quiet /\ Len(log) > 0) => prot = log[1].prot0

\* C7 witness: a call returned and the next panicked on a refusal, the site's
\* pages being read/execute only before each of them.
C7_Witness ==
  /\ Len(log) >= 2
  /\ log[1].result = "returned"
  /\ log[Len(log)].result = "panic_protect"
  /\ \A p \in SitePages : prot[p] = READ_EXECUTE /\ log[1].prot0[p] = READ_EXECUTE
  /\ Count(log[1].events, "protect_granted") = 1

C9_StructFormattingUnchanged ==
  (Quiet /\ (Len(log) = 0 \/ log[Len(log)].result = "returned"))
    => /\ FormatB(FALSE) = "B { x: 8, y: 32 }"
       /\ FormatB(TRUE) = "B {\n    x: 8,\n    y: 32,\n}"

\* C9 witness: enable(true) then enable(false) returned, each changing the
\* site, and B formats as before.
C9_Witness ==
  /\ Quiet /\ Len(log) >= 2
  /\ \E i \in 1..(Len(log) - 1) :
       /\ log[i].on /\ log[i].site0 # log[i].site1
       /\ ~log[i + 1].on /\ log[i + 1].site0 # log[i + 1].site1
  /\ FormatB(TRUE) = "B {\n    x: 8,\n    y: 32,\n}"

\* C10: in every call the site is read and classified before any permission
\* change is requested; a handle is held only by a call that found ORIGINAL or
\* PATCHED; a call that found other bytes requests no permission change.
C10_VerifyBeforeGuard ==
  /\ \A c \in CallsSeen :
       /\ \A k \in 1..Len(c.events) :
            c.events[k] \in {"protect_granted", "protect_denied"}
              => (k > 1 /\ c.events[1] = "read_ok")
       /\ Count(c.events, "read_bad") > 0
            => Count(c.events, "protect_granted") + Count(c.events, "protect_denied") = 0
       /\ ~(c.site0 = ORIGINAL(arch) \/ c.site0 = PATCHED(arch))
            => Count(c.events, "protect_granted") + Count(c.events, "protect_denied") = 0
  /\ \A t \in Threads :
       prot_handle[t] # NoHandle
         => /\ events[t][1] = "read_ok"
            /\ (start[t].site = ORIGINAL(arch) \/ start[t].site = PATCHED(arch))

\* C10 witness: one call holds the handle after a successful check, and an
\* earlier call went through check, request, write and restore in that order.
C10_Witness ==
  /\ \E t \in Threads : /\ prot_handle[t] # NoHandle
                        /\ events[t] = <<"read_ok", "protect_granted">>
  /\ \E i \in 1..Len(log) :
       log[i].events = <<"read_ok", "protect_granted", "write", "restore">>

\* Thread t performs the store of its call in this step.
Stores(t) == pc[t] = "write" /\ pc'[t] = "drop"

\* C11: the bytes of memory change only in the store of a call; that store is
\* made while the call holds its handle over the pages of the site and these
\* are writable; between the grant and the restore of a call there is the
\* store and nothing else; a call that returned has dropped its handle.
C11_WriteUnderGuard ==
  /\ [][/\ mem' # mem => \E t \in Threads : Stores(t)
        /\ \A t \in Threads :
             Stores(t) => /\ prot_handle[t] # NoHandle
                          /\ DOMAIN prot_handle[t] = SitePages
                          /\ \A p \in SitePages : "W" \in prot[p]]_vars
  /\ [](\A c \in CallsSeen : \A k \in 1..Len(c.events) :
          /\ c.events[k] = "write"
               => (k > 1 /\ c.events[k - 1] = "protect_granted")
          /\ (c.events[k] = "protect_granted" /\ k < Len(c.events))
               => c.events[k + 1] = "write"
          /\ c.events[k] = "restore"
               => (k > 1 /\ c.events[k - 1] = "write" /\ k = Len(c.events)))
  /\ [](\A i \in 1..Len(log) :
          log[i].result = "returned"
            => log[i].events[Len(log[i].events)] = "restore")
  /\ [](\A t \in Threads : pc[t] = "idle" => prot_handle[t] = NoHandle)

\* C11 witness: a call has just stored the other encoding over pages that were
\* read/execute when it began, and still holds its handle.
C11_Witness ==
  \E t \in Threads :
    /\ pc[t] = "drop"
    /\ events[t] = <<"read_ok", "protect_granted", "write">>
    /\ Site # start[t].site
    /\ prot_handle[t] # NoHandle
    /\ \A p \in SitePages : /\ start[t].prot[p] = READ_EXECUTE
                            /\ prot[p] = READ_WRITE_EXECUTE

\* C12: a call that finds at the site the encoding its argument asks for
\* still requests the permission change and, when granted, still stores that
\* encoding and restores; the site after the call holds the bytes it held
\* before.
C12_WritesEvenWhenInPlace ==
  \A i \in 1..Len(log) :
    log[i].site0 = (IF log[i].on THEN PATCHED(arch) ELSE ORIGINAL(arch))
      => /\ Len(log[i].events) >= 2
         /\ log[i].events[1] = "read_ok"
         /\ log[i].events[2] \in {"protect_granted", "protect_denied"}
         /\ log[i].events[2] = "protect_granted"
              => /\ log[i].events = <<"read_ok", "protect_granted", "write", "restore">>
                 /\ log[i].result = "returned"
         /\ log[i].site1 = log[i].site0

\* C12 witness: enable(true) on a patched site and enable(false) on an
\* original one both went through grant, store and restore.
C12_Witness ==
  /\ \E i \in 1..Len(log) :
       /\ log[i].on /\ log[i].site0 = PATCHED(arch) /\ log[i].site1 = PATCHED(arch)
       /\ log[i].events = <<"read_ok", "protect_granted", "write", "restore">>
  /\ \E i \in 1..Len(log) :
       /\ ~log[i].on /\ log[i].site0 = ORIGINAL(arch) /\ log[i].site1 = ORIGINAL(arch)
       /\ log[i].events = <<"read_ok", "protect_granted", "write", "restore">>

\* C13: every call classifies the bytes that are at the site when it runs,
\* whatever calls came before: its first event is the read, which succeeds
\* exactly when the site held ORIGINAL or PATCHED at entry; a call that finds
\* other bytes, also after calls that succeeded, panics there, requests no
\* permission change, stores nothing and leaves the site as it found it.
C13_EveryCallVerifies ==
  /\ \A i \in 1..Len(log) :
       /\ Len(log[i].events) >= 1
       /\ log[i].events[1] = "read_ok"
            <=> (log[i].site0 = ORIGINAL(arch) \/ log[i].site0 = PATCHED(arch))
       /\ log[i].events[1] = "read_bad"
            <=> ~(log[i].site0 = ORIGINAL(arch) \/ log[i].site0 = PATCHED(arch))
       /\ log[i].events[1] = "read_bad"
            => /\ log[i].result = "panic_verify"
               /\ log[i].events = <<"read_bad">>
               /\ log[i].site1 = log[i].site0
  /\ \A t \in Threads :
       (pc[t] \in {"protect", "write", "drop"})
         => (start[t].site = ORIGINAL(arch) \/ start[t].site = PATCHED(arch))

\* C13 witness: two calls succeeded and changed the site, the site was then
\* replaced from outside, and the third call panicked at the check with the
\* foreign bytes still in place.
C13_Witness ==
  /\ Len(log) = 3
  /\ log[1].result = "returned" /\ log[1].site0 # log[1].site1
  /\ log[2].result = "returned" /\ log[2].site0 # log[2].site1
  /\ log[3].result = "panic_verify"
  /\ log[3].site0 \in Drifted(arch)
  /\ log[3].site0 # log[2].site1
  /\ Site = log[3].site0

\* C14: with address = function + 0x46 and width = 2 on x86_64, 4 on aarch64
\* (the length of both ORIGINAL and PATCHED), a step of a call changes no byte
\* outside [address, address + width) and no protection of a page that holds
\* no byte of that range; a granted request makes every page holding a byte
\* of that range writable.
C14_Frame ==
  /\ [](/\ Len(ORIGINAL(arch)) = (IF arch = "x86_64" THEN 2 ELSE 4)
        /\ Len(PATCHED(arch)) = Len(ORIGINAL(arch)))
  /\ [][LET address == function + 70
            width == IF arch = "x86_64" THEN 2 ELSE 4
            range == address..(address + width - 1)
        IN /\ \A x \in DOMAIN mem : mem'[x] # mem[x] => x \in range
           /\ \A p \in DOMAIN prot :
                prot'[p] # prot[p] => \E x \in range : x \div PageSize = p
           /\ \A t \in Threads :
                (pc[t] = "protect" /\ pc'[t] = "write")
                  => \A x \in range : "W" \in prot'[x \div PageSize]
           /\ \A t \in Threads :
                (pc[t] = "write" /\ pc'[t] = "drop")
                  => \A x \in range :
                       mem'[x] = (IF on[t] THEN PATCHED(arch)
                                          ELSE ORIGINAL(arch))[x - address + 1]]_vars

\* C14 witness: a call has stored the other encoding at a site that ends at a
\* page boundary; the bytes on both sides are untouched and the next page,
\* which holds only bytes after the site, is still read/execute.
C14_Witness ==
  \E t \in Threads :
    /\ pc[t] = "drop"
    /\ Site # start[t].site
    /\ CodeIntact
    /\ Cardinality(DOMAIN prot) = 2
    /\ Cardinality(SitePages) = 1
    /\ \A p \in SitePages : prot[p] = READ_WRITE_EXECUTE /\ start[t].prot[p] = READ_EXECUTE
    /\ \A p \in DOMAIN prot \ SitePages : prot[p] = READ_EXECUTE

\* C15: a call never repeats a step (one read, at most one request, one
\* store, one restore), and every call in progress ends: it returns after the
\* store and the restore, or it panics at the check or at a refused request.
C15_Terminates ==
  /\ [](\A c \in CallsSeen :
          \A k \in {"read_ok", "read_bad", "protect_granted", "protect_denied",
                    "write", "restore", "fault"} : Count(c.events, k) <= 1)
  /\ \A t \in Threads :
       Active(t) ~> (/\ pc[t] \in {"idle", "panicked"}
                     /\ Len(log) > 0
                     /\ log[Len(log)].result
                          \in {"returned", "panic_verify", "panic_protect"})

\* C15 witness: MaxCalls calls have ended, the first two by returning and the
\* last by a panic on a refused request.
C15_Witness ==
  /\ Len(log) >= 3
  /\ \A t \in Threads : ~Active(t)
  /\ log[1].result = "returned" /\ log[2].result = "returned"
  /\ log[Len(log)].result = "panic_protect"

\* C16: what a thread running the function fetches at the site is, byte by
\* byte, a byte of ORIGINAL or of PATCHED; it fetches bytes that are neither
\* encoding only while a call that changes the encoding has part of its store
\* in memory.  (That such a fetch happens is the witness: no step of enable
\* keeps the fetch out of the store.)
C16_TornFetch ==
  /\ [](\A i \in 1..Len(fetched) :
          fetched[i] = ORIGINAL(arch)[i] \/ fetched[i] = PATCHED(arch)[i])
  /\ [][(fetched' # fetched /\ fetched' # ORIGINAL(arch) /\ fetched' # PATCHED(arch))
          => \E t \in Threads :
               /\ pc[t] = "write"
               /\ written[t] # {} /\ written[t] # 1..Len(ORIGINAL(arch))
               /\ start[t].site # (IF on[t] THEN PATCHED(arch) ELSE ORIGINAL(arch))]_vars

\* C16 witness: a call is in the middle of its store and a thread running the
\* function has fetched the bytes now at the site, which are neither ORIGINAL
\* nor PATCHED.
C16_Witness ==
  /\ fetched = Site
  /\ fetched # ORIGINAL(arch) /\ fetched # PATCHED(arch)
  /\ \E t \in Threads :
       /\ pc[t] = "write" /\ written[t] # {}
       /\ prot_handle[t] # NoHandle
       /\ \A u \in Threads \ {t} : pc[u] = "idle"

\* Two calls were made, both have returned, and no call is in progress.
BothReturned ==
  /\ Quiet /\ Len(log) = 2
  /\ log[1].result = "returned" /\ log[2].result = "returned"

\* The protections of the pages when the first of the calls began.
ProtBeforeFirst == log[CHOOSE i \in 1..Len(log) : log[i].seq = 0].prot0

\* C17 as claimed: when two calls on a recognized site interleave in any order
\* of their steps and both have returned, the pages have the protections held
\* before the first call began and the site holds ORIGINAL or PATCHED.
C17_AsClaimed ==
  BothReturned
    => /\ prot = ProtBeforeFirst
       /\ (Site = ORIGINAL(arch) \/ Site = PATCHED(arch))

\* C17 as amended: when two calls on a recognized site interleave in any order
\* of their steps and both have returned, every page holding a byte of the site
\* has the protection held before the first call began or is
\* read/write/execute, every other page has the protection held before the
\* first call began, and each byte of the site is the byte of ORIGINAL or of
\* PATCHED at its position.
C17_Amended ==
  BothReturned
    => /\ \A p \in DOMAIN prot :
            \/ prot[p] = ProtBeforeFirst[p]
            \/ /\ \E x \in (function + 70)..(function + 70 + Len(ORIGINAL(arch)) - 1) :
                     x \div PageSize = p
               /\ prot[p] = {"R", "W", "X"}
       /\ \A i \in 1..Len(ORIGINAL(arch)) :
            mem[function + 70 + i - 1] = ORIGINAL(arch)[i]
              \/ mem[function + 70 + i - 1] = PATCHED(arch)[i]
       /\ CodeIntact

\* C17 witness: two calls with different arguments ran interleaved and both
\* returned; a page of the site that was read/execute is left
\* read/write/execute and the site holds a mix of the two encodings.
C17_Witness ==
  /\ BothReturned
  /\ log[1].on # log[2].on
  /\ \E p \in SitePages : /\ ProtBeforeFirst[p] = READ_EXECUTE
                           /\ prot[p] = READ_WRITE_EXECUTE
  /\ Site # ORIGINAL(arch) /\ Site # PATCHED(arch)


\* C18 as claimed: on aarch64, where instructions are 4 bytes wide and the
\* entry of the function is 4-byte aligned, the site function + 0x46 is a
\* multiple of 4 and the 4 bytes a call stores lie in one instruction slot;
\* on x86_64 the 2 bytes stored are the 2 bytes of the jne.
C18_AsClaimed ==
  \A t \in Threads :
    (pc[t] = "drop" /\ function % FunctionAlign(arch) = 0)
      => IF arch = "aarch64"
           THEN /\ Len(ORIGINAL(arch)) = 4
                /\ (function + 70) % 4 = 0
                /\ Cardinality({x \div 4 : x \in (function + 70)..(function + 70 + 3)}) = 1
           ELSE Len(ORIGINAL(arch)) = 2

====
